---- MODULE Spec2Model ----
(***************************************************************************)
(* Model of image_convert.py: the batch conversion pipeline of             *)
(* ImageConverter (discovery, waves of conversion tasks on a thread pool,  *)
(* output-path resolution, statistics aggregation and the summary).        *)
(*                                                                         *)
(* A path is a sequence of names; a name is a record [stem, suffix] (the   *)
(* suffix is kept without its dot, "" when the name has none).  The file   *)
(* system is the pair (dirs, files): dirs is the set of existing           *)
(* directories, files maps every existing regular file to its content.    *)
(* The content of a file is the colour mode of the image it holds,         *)
(* "garbage" for bytes that are no image, "partial" for a truncated write. *)
(***************************************************************************)
EXTENDS Integers, Sequences, FiniteSets, TLC

VARIABLES
  cfg,         \* the converter's configuration: format, recursive, maintain_structure
  saver,       \* self.saver
  mk,          \* the calls of Path.mkdir that are under way, one per thread
  dirs, files, \* the file system
  stats,       \* self.stats
  input_path,  \* run's argument input_path
  input_dir,   \* self.input_dir
  output_dir,  \* the output directory passed down to convert_image
  pc,          \* where the calling thread is
  iter,        \* the iterator over the candidate files
  chunk,       \* the list process_files was called with
  tasks,       \* the futures of the current call of process_files
  upd,         \* the executions of stats.update that are under way
  log,         \* the tasks of the calls of process_files that have returned
  submitted,   \* number of tasks submitted so far
  summaries    \* number of summaries logged so far

vars == <<cfg, saver, mk, dirs, files, stats, input_path, input_dir, output_dir, pc, iter,
          chunk, tasks, upd, log, submitted, summaries>>

\* ---------------------------------------------------------------- bounds
\* Size of a wave (the source uses 1000), scaled down.
ChunkSize == 3
\* Worker threads of the ThreadPoolExecutor (the source takes the default).
MaxWorkers == 2
\* Deepest directory the run may create
MaxDepth == 3

\* ---------------------------------------------------------------- paths
N(s, e) == [stem |-> s, suffix |-> e]

NoPath == <<>>

Root    == <<N("root", "")>>
SubA    == <<N("root", ""), N("a", "")>>
Out     == <<N("out", "")>>
RootOut == <<N("root", ""), N("out", "")>>
Gone    == <<N("gone", "")>>

Parent(p) == SubSeq(p, 1, Len(p) - 1)
Name(p)   == p[Len(p)]
Stem(p)   == Name(p).stem
Suffix(p) == Name(p).suffix

IsPrefix(b, p) == Len(b) <= Len(p) /\ SubSeq(p, 1, Len(b)) = b

\* str.lower() on the suffixes that occur
Lower(s) ==
  CASE s = "PNG"  -> "png"
    [] s = "JPG"  -> "jpg"
    [] s = "JPEG" -> "jpeg"
    [] s = "GIF"  -> "gif"
    [] s = "BMP"  -> "bmp"
    [] s = "WEBP" -> "webp"
    [] OTHER      -> s

ImageFormat == {"PNG", "JPEG", "GIF", "BMP", "WEBP"}

\* ImageFormat.__str__: the lower-cased member name
FormatStr(f) == Lower(f)

IMAGE_EXTENSIONS == {"png", "jpg", "jpeg", "gif", "bmp", "webp"}

\* ---------------------------------------------------------------- the tree
InitDirs == {Root, SubA}

InitFiles ==
  (Root \o <<N("c", "png")>>) :> "RGBA" @@
  (Root \o <<N("c", "jpg")>>) :> "RGB"  @@
  (Root \o <<N("n", "txt")>>) :> "garbage" @@
  (SubA \o <<N("c", "PNG")>>) :> "LA" @@
  (SubA \o <<N("d", "gif")>>) :> "garbage"

InputRoots  == {Root, Root \o <<N("c", "png")>>, Root \o <<N("n", "txt")>>, Gone}
OutputRoots == {Out, Root, RootOut}

IsDir(p)  == p \in dirs
IsFile(p) == p \in DOMAIN files

\* Path.relative_to: the part of p below base, ValueError when p is not below
RelativeTo(p, base) ==
  IF IsPrefix(base, p)
  THEN [ok |-> TRUE,  rel |-> SubSeq(p, Len(base) + 1, Len(p))]
  ELSE [ok |-> FALSE, rel |-> NoPath]

Prefixes(d) == {SubSeq(d, 1, k) : k \in 1..Len(d)}

\* Path.mkdir(parents=True, exist_ok=True): every missing ancestor is made;
\* it fails when the path or an ancestor is a regular file
MkdirOk(d) == \A q \in Prefixes(d) : ~IsFile(q)
Mkdir(d)   == dirs \cup Prefixes(d)

\* ---------------------------------------------------------------- codec
\* Image.open succeeds on a file that holds an image
CanOpen(p) == IsFile(p) /\ files[p] \notin {"garbage", "partial"}

\* RGBAToRGBProcessor.process
RGBAToRGB(mode) == IF mode = "RGBA" THEN "RGB" ELSE mode

\* ImageConverter._setup_processors
SetupProcessors(format) ==
  IF format \in {"JPEG", "WEBP"} THEN <<"RGBAToRGBProcessor">> ELSE <<>>

\* reduce(lambda i, p: p.process(i), self.processors, img)
RECURSIVE Reduce(_, _)
Reduce(processors, mode) ==
  IF processors = <<>> THEN mode
  ELSE Reduce(Tail(processors), RGBAToRGB(mode))

\* The colour modes the encoder of a format accepts in img.save
WritableModes(format) ==
  CASE format = "JPEG" -> {"RGB"}
    [] format = "BMP"  -> {"RGB", "RGBA", "P"}
    [] OTHER           -> {"RGB", "RGBA", "LA", "P"}

\* The colour mode of the file the encoder of a format writes
EncodedMode(format, mode) ==
  CASE format = "JPEG" -> "RGB"
    [] format = "GIF"  -> "P"
    [] format = "BMP"  -> "RGB"
    [] format = "WEBP" -> (IF mode \in {"RGBA", "LA"} THEN "RGBA" ELSE "RGB")
    [] OTHER           -> mode

\* ---------------------------------------------------------------- results
\* ConversionResult(input_path, output_path, success, error_message)
ConversionResult(inp, outp, ok, msg) ==
  [input_path |-> inp, output_path |-> outp, success |-> ok, error_message |-> msg]

NoResult == ConversionResult(NoPath, NoPath, FALSE, "<pending>")

\* ConversionStats(); the clock reads 0 when the converter is constructed
NewStats == [total |-> 0, success |-> 0, failed |-> 0, start_time |-> 0]

\* ---------------------------------------------------------------- saver
\* quality: int = 85
DefaultQuality == 85
\* self.save_kwargs['method'] = 6
WebPMethod == 6

\* no keyword arguments: img.save has not been called
NoKwargs == <<>>

\* ImageSaver.__init__
ImageSaver(format, quality) ==
  LET base == [k \in {"quality"} |-> quality] IN
  [format |-> format, quality |-> quality,
   save_kwargs |-> IF format = "WEBP"
                   THEN [k \in DOMAIN base \cup {"method"} |->
                           IF k = "method" THEN WebPMethod ELSE base[k]]
                   ELSE base]

\* self.input_dir before run() has assigned it
Unset == <<N("<unset>", "")>>

\* ---------------------------------------------------------------- output path
\* (mutant) the directory structure is never mirrored
OutputDirFlat(f, outdir, indir, maintain) == [ok |-> TRUE, dir |-> outdir, msg |-> ""]

\* ImageConverter._get_output_path, up to the directory it creates:
\* [ok, dir, msg]
OutputDir(f, outdir, indir, maintain) ==
  IF ~maintain THEN [ok |-> TRUE, dir |-> outdir, msg |-> ""]
  ELSE IF indir = Unset THEN [ok |-> FALSE, dir |-> NoPath, msg |-> "AttributeError"]
  ELSE LET r == RelativeTo(f, indir) IN
       IF r.ok THEN [ok |-> TRUE, dir |-> outdir \o Parent(r.rel), msg |-> ""]
       ELSE [ok |-> FALSE, dir |-> NoPath, msg |-> "ValueError"]

\* full_output_dir / f"{input_path.stem}.{self.format}"
OutputFile(dir, f, format) == dir \o <<N(Stem(f), FormatStr(format))>>

\* ---------------------------------------------------------------- discovery
\* All orders in which a directory listing can come back
Perms(S) ==
  {s \in [1..Cardinality(S) -> S] : \A i, j \in 1..Cardinality(S) : i # j => s[i] # s[j]}

Children(d) == {p \in dirs \cup DOMAIN files : Len(p) = Len(d) + 1 /\ Parent(p) = d}
SubDirs(d)  == {p \in Children(d) : IsDir(p)}

\* The iterator over one file: files = [input_path]
ListIter(p) ==
  [filter |-> FALSE, recurse |-> FALSE, entries |-> <<p>>, cur |-> NoPath, todo |-> <<>>]

\* get_image_files: the lazy generator over directory.glob(pattern) with
\* pattern '**/*' when recursive and '*' otherwise.  A directory is listed
\* when the walk reaches it, its sub-directories after its entries are used up.
GetImageFiles(directory, recursive) ==
  [filter |-> TRUE, recurse |-> recursive, entries |-> <<>>, cur |-> NoPath,
   todo |-> <<directory>>]

\* f.is_file() and f.suffix.lower() in self.IMAGE_EXTENSIONS
Accepts(it, f) ==
  ~it.filter \/ (IsFile(f) /\ Lower(Suffix(f)) \in IMAGE_EXTENSIONS)

\* list(islice(iterator, n)): every way of pulling at most n candidates from
\* the iterator against the file system as it is now: a set of [chunk, it]
RECURSIVE Pull(_, _)
Pull(it, n) ==
  IF n = 0 THEN {[chunk |-> <<>>, it |-> it]}
  ELSE IF it.entries # <<>> THEN
    LET f    == Head(it.entries)
        rest == [it EXCEPT !.entries = Tail(@)]
    IN  IF Accepts(it, f)
        THEN {[chunk |-> <<f>> \o r.chunk, it |-> r.it] : r \in Pull(rest, n - 1)}
        ELSE Pull(rest, n)
  ELSE IF it.cur # NoPath THEN
    UNION {Pull([it EXCEPT !.cur = NoPath, !.todo = s \o @], n) : s \in Perms(SubDirs(it.cur))}
  ELSE IF it.todo # <<>> THEN
    LET d == Head(it.todo)
    IN  UNION {Pull([it EXCEPT !.todo = Tail(@), !.entries = s,
                               !.cur = IF it.recurse THEN d ELSE NoPath], n)
               : s \in Perms(Children(d))}
  ELSE {[chunk |-> <<>>, it |-> it]}

\* sum(1 for _ in files)
CountAll(it) ==
  Len((CHOOSE r \in Pull(it, Cardinality(DOMAIN files) + 1) : TRUE).chunk)

\* (mutant) islice takes one candidate more than the chunk size
ChunkedIteratorOver(it, chunk_size) == Pull(it, chunk_size + 1)

\* ImageConverter.chunked_iterator: the next chunk of at most chunk_size
ChunkedIterator(it, chunk_size) == Pull(it, chunk_size)

\* ---------------------------------------------------------------- tasks
\* executor.submit(self.convert_image, f, output_dir) for f in files
Submit(fs, faults) ==
  [i \in 1..Len(fs) |->
     [input |-> fs[i], fault |-> faults[i], st |-> "queued", source |-> "", mode |-> "",
      out |-> NoPath, kwargs |-> NoKwargs, res |-> NoResult, handled |-> 0]]

Running(ts)  == {i \in DOMAIN ts : ts[i].st \in {"opened", "resolved"}}
\* a future is done when its call has returned or raised
Finished(ts) == {i \in DOMAIN ts : ts[i].st \in {"finished", "raised"}}

\* (mutant) as_completed hands a finished future out again
AsCompletedAgain(ts) == Finished(ts)

\* as_completed(futures): the finished futures not yet handed out
AsCompleted(ts) == {i \in Finished(ts) : ts[i].handled = 0}

\* Thread 0 is the caller of process_files, thread i > 0 the worker that
\* runs task i
MainThread == 0

\* (mutant) the worker that ran the task aggregates its result itself
AggregatorWorker(i) == i

\* The thread that runs _handle_result for task i: the caller of
\* process_files, in its as_completed loop
Aggregator(i) == MainThread

\* (mutant) the exception leaves convert_image
FailRaise(t, msg) == [t EXCEPT !.st = "raised"]

\* (mutant) the failed result keeps the output path
FailKeepsPath(t, msg) ==
  [t EXCEPT !.st = "finished", !.res = ConversionResult(t.input, t.out, FALSE, msg)]

\* except Exception as e: return ConversionResult(input_path, None, False, str(e))
Fail(t, msg) ==
  [t EXCEPT !.st = "finished", !.res = ConversionResult(t.input, NoPath, FALSE, msg)]

\* The faults the environment injects into a task of a run, and into a
\* direct call of convert_image
PipelineFaults == {"none", "save"}
Faults == {"none", "open", "process", "mkdir", "save"}

\* ---------------------------------------------------------------- actions
Init ==
  /\ cfg \in [format : ImageFormat, recursive : BOOLEAN, maintain_structure : BOOLEAN]
  /\ saver = ImageSaver(cfg.format, DefaultQuality)
  /\ mk = <<>>
  /\ dirs = InitDirs
  /\ files = InitFiles
  /\ stats = NewStats
  /\ input_path = NoPath
  /\ input_dir = Unset
  /\ output_dir = NoPath
  /\ pc = "constructed"
  /\ iter = ListIter(NoPath)
  /\ chunk = <<>>
  /\ tasks = <<>>
  /\ upd = <<>>
  /\ log = <<>>
  /\ submitted = 0
  /\ summaries = 0

\* run(), up to the loop over the chunks
Run(inp, output_path) ==
  /\ pc = "constructed"
  /\ input_path' = inp
  /\ input_dir' = IF IsDir(inp) THEN inp ELSE Parent(inp)
  /\ output_dir' = output_path
  /\ IF ~MkdirOk(output_path)
     THEN /\ pc' = "raised"
          /\ UNCHANGED <<dirs, stats, iter>>
     ELSE /\ dirs' = Mkdir(output_path)
          /\ pc' = "chunks"
          /\ IF IsFile(inp)
             THEN /\ iter' = ListIter(inp)
                  /\ stats' = [stats EXCEPT !.total = 1]
             ELSE /\ iter' = GetImageFiles(inp, cfg.recursive)
                  /\ stats' = [stats EXCEPT !.total = CountAll(iter')]
  /\ UNCHANGED <<cfg, saver, mk, files, chunk, tasks, upd, log, submitted, summaries>>

\* for chunk in chunked_iterator(files, 1000): process_files submits the chunk
NextChunk ==
  /\ pc = "chunks"
  /\ \E r \in ChunkedIterator(iter, ChunkSize) :
       /\ r.chunk # <<>>
       /\ iter' = r.it
       /\ chunk' = r.chunk
       /\ \E faults \in [1..Len(r.chunk) -> PipelineFaults] :
            tasks' = Submit(r.chunk, faults)
       /\ submitted' = submitted + Len(r.chunk)
  /\ pc' = "pool"
  /\ UNCHANGED <<cfg, saver, mk, dirs, files, stats, input_path, input_dir, output_dir, upd, log, summaries>>

\* the chunked iterator returns the sentinel []: the loop ends
LoopExit ==
  /\ pc = "chunks"
  /\ \E r \in ChunkedIterator(iter, ChunkSize) :
       /\ r.chunk = <<>>
       /\ iter' = r.it
  /\ pc' = "summary"
  /\ UNCHANGED <<cfg, saver, mk, dirs, files, stats, input_path, input_dir, output_dir, chunk, tasks,
                 upd, log, submitted, summaries>>

\* A free worker takes the oldest queued task: Image.open and the processors
TaskOpen(i) ==
  /\ i \in DOMAIN tasks
  /\ tasks[i].st = "queued"
  /\ \A j \in 1..(i - 1) : tasks[j].st # "queued"
  /\ Cardinality(Running(tasks)) < MaxWorkers
  /\ LET t == tasks[i] IN
       tasks' = [tasks EXCEPT ![i] =
                   IF ~CanOpen(t.input) \/ t.fault = "open"
                   THEN Fail(t, "UnidentifiedImageError")
                   ELSE IF t.fault = "process"
                   THEN Fail(t, "OSError: image file is truncated")
                   ELSE [t EXCEPT !.st = "opened",
                                  !.source = files[t.input],
                                  !.mode = Reduce(SetupProcessors(cfg.format), files[t.input])]]
  /\ UNCHANGED <<cfg, saver, mk, dirs, files, stats, input_path, input_dir, output_dir, pc, iter, chunk,
                 upd, log, submitted, summaries>>

\* _get_output_path
TaskResolve(i) ==
  /\ i \in DOMAIN tasks
  /\ tasks[i].st = "opened"
  /\ Len(OutputDir(tasks[i].input, output_dir, input_dir, cfg.maintain_structure).dir) <= MaxDepth
  /\ LET t == tasks[i]
         d == OutputDir(t.input, output_dir, input_dir, cfg.maintain_structure)
     IN  IF ~d.ok
         THEN /\ tasks' = [tasks EXCEPT ![i] = Fail(t, d.msg)]
              /\ UNCHANGED dirs
         ELSE IF ~MkdirOk(d.dir) \/ t.fault = "mkdir"
         THEN /\ tasks' = [tasks EXCEPT ![i] = Fail(t, "OSError: mkdir")]
              /\ UNCHANGED dirs
         ELSE /\ dirs' = Mkdir(d.dir)
              /\ tasks' = [tasks EXCEPT ![i] =
                             [t EXCEPT !.st = "resolved",
                                       !.out = OutputFile(d.dir, t.input, cfg.format)]]
  /\ UNCHANGED <<cfg, saver, mk, files, stats, input_path, input_dir, output_dir, pc, iter, chunk,
                 upd, log, submitted, summaries>>

\* self.saver.save(img, output_path) and the return of the result
TaskSave(i) ==
  /\ i \in DOMAIN tasks
  /\ tasks[i].st = "resolved"
  /\ LET t == [tasks[i] EXCEPT !.kwargs = saver.save_kwargs] IN
       IF t.mode \in WritableModes(saver.format) /\ ~IsDir(t.out) /\ t.fault # "save"
       THEN /\ files' = [p \in DOMAIN files \cup {t.out} |->
                           IF p = t.out THEN EncodedMode(saver.format, t.mode) ELSE files[p]]
            /\ tasks' = [tasks EXCEPT ![i] =
                           [t EXCEPT !.st = "finished",
                                     !.res = ConversionResult(t.input, t.out, TRUE, "")]]
       ELSE /\ files' = [p \in DOMAIN files |->
                           IF p = t.out /\ ~IsDir(t.out) THEN "partial" ELSE files[p]]
            /\ tasks' = [tasks EXCEPT ![i] = Fail(t, "OSError: cannot write")]
  /\ UNCHANGED <<cfg, saver, mk, dirs, stats, input_path, input_dir, output_dir, pc, iter, chunk,
                 upd, log, submitted, summaries>>

\* future.result() and the first half of stats.update: the counters are read
UpdateLoad(i) ==
  /\ pc = "pool"
  /\ i \in AsCompleted(tasks)
  /\ Aggregator(i) \notin {u.thread : u \in {upd[k] : k \in DOMAIN upd}}
  /\ i \notin {u.task : u \in {upd[k] : k \in DOMAIN upd}}
  /\ IF tasks[i].st = "raised"
     THEN /\ pc' = "raised"
          /\ UNCHANGED upd
     ELSE /\ upd' = Append(upd, [thread |-> Aggregator(i), task |-> i,
                                 success |-> stats.success, failed |-> stats.failed])
          /\ UNCHANGED pc
  /\ UNCHANGED <<cfg, saver, mk, dirs, files, stats, input_path, input_dir, output_dir, iter, chunk,
                 tasks, log, submitted, summaries>>

\* (mutant) stats.update adds one to both counters
UpdateStoreBoth(k) ==
  /\ k \in DOMAIN upd
  /\ LET u == upd[k]
     IN  /\ stats' = [stats EXCEPT !.success = u.success + 1, !.failed = u.failed + 1]
         /\ tasks' = [tasks EXCEPT ![u.task].handled = @ + 1]
  /\ upd' = [j \in 1..(Len(upd) - 1) |-> IF j < k THEN upd[j] ELSE upd[j + 1]]
  /\ UNCHANGED <<cfg, saver, mk, dirs, files, input_path, input_dir, output_dir, pc, iter, chunk,
                 log, submitted, summaries>>

\* the second half of stats.update: the counters are written; the result is logged
UpdateStore(k) ==
  /\ k \in DOMAIN upd
  /\ LET u == upd[k]
         r == tasks[u.task].res
     IN  /\ stats' = [stats EXCEPT !.success = u.success + (IF r.success THEN 1 ELSE 0),
                                   !.failed  = u.failed + (IF r.success THEN 0 ELSE 1)]
         /\ tasks' = [tasks EXCEPT ![u.task].handled = @ + 1]
  /\ upd' = [j \in 1..(Len(upd) - 1) |-> IF j < k THEN upd[j] ELSE upd[j + 1]]
  /\ UNCHANGED <<cfg, saver, mk, dirs, files, input_path, input_dir, output_dir, pc, iter, chunk,
                 log, submitted, summaries>>

\* (mutant) process_files returns without waiting for its futures
PoolExitNoWait ==
  /\ pc = "pool"
  /\ upd = <<>>
  /\ log' = log \o tasks
  /\ tasks' = <<>>
  /\ pc' = "chunks"
  /\ UNCHANGED <<cfg, saver, mk, dirs, files, stats, input_path, input_dir, output_dir, iter, chunk,
                 upd, submitted, summaries>>

\* as_completed is exhausted and the executor has shut down: process_files returns
PoolExit ==
  /\ pc = "pool"
  /\ upd = <<>>
  /\ \A i \in DOMAIN tasks : tasks[i].st = "finished" /\ tasks[i].handled > 0
  /\ log' = log \o tasks
  /\ tasks' = <<>>
  /\ pc' = "chunks"
  /\ UNCHANGED <<cfg, saver, mk, dirs, files, stats, input_path, input_dir, output_dir, iter, chunk,
                 upd, submitted, summaries>>

\* self.logger.info(self.stats.summary()); run returns
Summary ==
  /\ pc = "summary"
  /\ summaries' = summaries + 1
  /\ pc' = "returned"
  /\ UNCHANGED <<cfg, saver, mk, dirs, files, stats, input_path, input_dir, output_dir, iter, chunk,
                 tasks, upd, log, submitted>>

Next ==
  \/ \E i \in InputRoots, o \in OutputRoots : Run(i, o)
  \/ NextChunk
  \/ LoopExit
  \/ \E i \in 1..(ChunkSize + 1) : TaskOpen(i)
  \/ \E i \in 1..(ChunkSize + 1) : TaskResolve(i)
  \/ \E i \in 1..(ChunkSize + 1) : TaskSave(i)
  \/ \E i \in 1..(ChunkSize + 1) : UpdateLoad(i)
  \/ \E k \in 1..(ChunkSize + 1) : UpdateStore(k)
  \/ PoolExit
  \/ Summary

Spec == Init /\ [][Next]_vars

\* ---------------------------------------------------------------- direct calls
\* convert_image called directly, on a converter whose input_dir is still
\* unset or was set before
MaxCalls == 1

CallInputs  == {Root \o <<N("c", "png")>>, SubA \o <<N("c", "PNG")>>,
                Root \o <<N("n", "txt")>>, Gone \o <<N("x", "png")>>}
CallOutputs == {Out, Root, Root \o <<N("n", "txt")>>}

\* -q/--quality: choices=range(1, 101)
Qualities == {1, DefaultQuality, 100}

InitTask ==
  /\ cfg \in [format : ImageFormat, recursive : {FALSE}, maintain_structure : BOOLEAN]
  /\ \E q \in Qualities : saver = ImageSaver(cfg.format, q)
  /\ mk = <<>>
  /\ dirs = InitDirs
  /\ files = InitFiles
  /\ stats = NewStats
  /\ input_path = NoPath
  /\ input_dir \in {Unset, Root, SubA}
  /\ output_dir = NoPath
  /\ pc = "direct"
  /\ iter = ListIter(NoPath)
  /\ chunk = <<>>
  /\ tasks = <<>>
  /\ upd = <<>>
  /\ log = <<>>
  /\ submitted = 0
  /\ summaries = 0

\* convert_image(f, outp) is entered
Call(f, outp, fault) ==
  /\ pc = "direct"
  /\ tasks = <<>>
  /\ Len(log) < MaxCalls
  /\ output_dir' = outp
  /\ chunk' = <<f>>
  /\ tasks' = Submit(<<f>>, <<fault>>)
  /\ submitted' = submitted + 1
  /\ UNCHANGED <<cfg, saver, mk, dirs, files, stats, input_path, input_dir, pc, iter, upd, log, summaries>>

\* convert_image has returned its result
Return ==
  /\ pc = "direct"
  /\ tasks # <<>>
  /\ tasks[1].st = "finished"
  /\ log' = log \o tasks
  /\ tasks' = <<>>
  /\ UNCHANGED <<cfg, saver, mk, dirs, files, stats, input_path, input_dir, output_dir, pc, iter, chunk,
                 upd, submitted, summaries>>

NextTask ==
  \/ \E f \in CallInputs, o \in CallOutputs, x \in Faults : Call(f, o, x)
  \/ TaskOpen(1)
  \/ TaskResolve(1)
  \/ TaskSave(1)
  \/ Return

SpecTask == InitTask /\ [][NextTask]_vars

\* ---------------------------------------------------------------- mkdir
\* Threads that call mkdir at the same time
MkThreads == 2

\* full_output_dir.mkdir(parents=True, exist_ok=True)
MkdirParents == TRUE

\* (mutant) mkdir is called without exist_ok
MkdirExistOkFalse == FALSE

MkdirExistOk == TRUE

MkdirTargets == {Out, Out \o <<N("a", "")>>, Out \o <<N("a", ""), N("b", "")>>}

InitMkdir ==
  /\ cfg = [format |-> "PNG", recursive |-> FALSE, maintain_structure |-> TRUE]
  /\ saver = ImageSaver(cfg.format, DefaultQuality)
  /\ mk = <<>>
  /\ dirs \in {InitDirs, InitDirs \cup {Out}}
  /\ files = InitFiles
  /\ stats = NewStats
  /\ input_path = NoPath
  /\ input_dir = Unset
  /\ output_dir = NoPath
  /\ pc = "mkdir"
  /\ iter = ListIter(NoPath)
  /\ chunk = <<>>
  /\ tasks = <<>>
  /\ upd = <<>>
  /\ log = <<>>
  /\ submitted = 0
  /\ summaries = 0

\* One activation of Path.mkdir
Frame(p, parents, exist_ok) == [path |-> p, parents |-> parents, exist_ok |-> exist_ok]

\* A thread enters d.mkdir(parents=True, exist_ok=True)
MkdirCall(d) ==
  /\ pc = "mkdir"
  /\ Len(mk) < MkThreads
  /\ mk' = Append(mk, [target |-> d, result |-> "running", hits |-> 0,
                       stack |-> <<Frame(d, MkdirParents, MkdirExistOk)>>])
  /\ UNCHANGED <<cfg, saver, dirs, files, stats, input_path, input_dir, output_dir, pc, iter,
                 chunk, tasks, upd, log, submitted, summaries>>

\* One os.mkdir of thread th and what Path.mkdir does with its outcome:
\*   created                      -> the activation returns
\*   FileNotFoundError, parents   -> self.parent.mkdir(parents=True, exist_ok=True),
\*                                   then self.mkdir(mode, parents=False, exist_ok=exist_ok)
\*   other OSError                -> swallowed when exist_ok and the path is a
\*                                   directory, raised otherwise
MkdirStep(th) ==
  /\ th \in DOMAIN mk
  /\ mk[th].result = "running"
  /\ LET m    == mk[th]
         fr   == Head(m.stack)
         rest == Tail(m.stack)
         done(h) == [m EXCEPT !.stack = rest, !.hits = @ + h,
                                 !.result = IF rest = <<>> THEN "ok" ELSE @]
     IN  IF IsDir(fr.path) \/ IsFile(fr.path)
         THEN /\ mk' = [mk EXCEPT ![th] =
                          IF fr.exist_ok /\ IsDir(fr.path)
                          THEN done(1)
                          ELSE [m EXCEPT !.result = "FileExistsError"]]
              /\ UNCHANGED dirs
         ELSE IF Len(fr.path) > 1 /\ ~IsDir(Parent(fr.path))
         THEN /\ mk' = [mk EXCEPT ![th] =
                          IF IsFile(Parent(fr.path))
                          THEN [m EXCEPT !.result = "NotADirectoryError"]
                          ELSE IF ~fr.parents
                          THEN [m EXCEPT !.result = "FileNotFoundError"]
                          ELSE [m EXCEPT !.stack =
                                  <<Frame(Parent(fr.path), TRUE, TRUE),
                                    Frame(fr.path, FALSE, fr.exist_ok)>> \o rest]]
              /\ UNCHANGED dirs
         ELSE /\ dirs' = dirs \cup {fr.path}
              /\ mk' = [mk EXCEPT ![th] = done(0)]
  /\ UNCHANGED <<cfg, saver, files, stats, input_path, input_dir, output_dir, pc, iter,
                 chunk, tasks, upd, log, submitted, summaries>>

NextMkdir ==
  \/ \E d \in MkdirTargets : MkdirCall(d)
  \/ \E th \in 1..MkThreads : MkdirStep(th)

SpecMkdir == InitMkdir /\ [][NextMkdir]_vars

\* ------------------------------------------------------------- repeated runs
\* run() called again on the same ImageConverter after it has returned
MaxRuns == 2

RerunInputs  == {Root, Root \o <<N("c", "png")>>}
RerunOutputs == {Out}

\* ImageConverter(format=...): self.stats = ConversionStats() is in __init__
InitRerun ==
  /\ cfg \in [format : {"PNG", "JPEG"}, recursive : BOOLEAN, maintain_structure : {FALSE}]
  /\ saver = ImageSaver(cfg.format, DefaultQuality)
  /\ mk = <<>>
  /\ dirs = InitDirs
  /\ files = InitFiles
  /\ stats = NewStats
  /\ input_path = NoPath
  /\ input_dir = Unset
  /\ output_dir = NoPath
  /\ pc = "constructed"
  /\ iter = ListIter(NoPath)
  /\ chunk = <<>>
  /\ tasks = <<>>
  /\ upd = <<>>
  /\ log = <<>>
  /\ submitted = 0
  /\ summaries = 0

\* The caller's next converter.run(...): the object is the same, nothing of
\* it is re-created; log and submitted are the records of the current run
CallAgain ==
  /\ pc = "returned"
  /\ summaries < MaxRuns
  /\ pc' = "constructed"
  /\ log' = <<>>
  /\ submitted' = 0
  /\ UNCHANGED <<cfg, saver, mk, dirs, files, stats, input_path, input_dir, output_dir, iter, chunk,
                 tasks, upd, summaries>>

NextRerun ==
  \/ \E i \in RerunInputs, o \in RerunOutputs : Run(i, o)
  \/ NextChunk
  \/ LoopExit
  \/ \E i \in 1..(ChunkSize + 1) : TaskOpen(i)
  \/ \E i \in 1..(ChunkSize + 1) : TaskResolve(i)
  \/ \E i \in 1..(ChunkSize + 1) : TaskSave(i)
  \/ \E i \in 1..(ChunkSize + 1) : UpdateLoad(i)
  \/ \E k \in 1..(ChunkSize + 1) : UpdateStore(k)
  \/ PoolExit
  \/ Summary
  \/ CallAgain

SpecRerun == InitRerun /\ [][NextRerun]_vars

\* ---------------------------------------------------------------- properties
AllTasks == log \o tasks

FailedIn(ts)    == {i \in DOMAIN ts : ts[i].st = "finished" /\ ~ts[i].res.success}
SucceededIn(ts) == {i \in DOMAIN ts : ts[i].st = "finished" /\ ts[i].res.success}

\* C1: when run returns, stats.success + stats.failed = stats.total
C1_CountsAddUpToTotal ==
  pc = "returned" => stats.success + stats.failed = stats.total

\* C2: process_files runs exactly one task per candidate of its list and
\* every result is handled (aggregated) exactly once
C2_OneTaskPerCandidate ==
  /\ pc = "pool" =>
       /\ Len(tasks) = Len(chunk)
       /\ \A i \in DOMAIN tasks : tasks[i].input = chunk[i]
  /\ \A i \in DOMAIN AllTasks : AllTasks[i].handled <= 1
  /\ \A i \in DOMAIN log : log[i].st = "finished" /\ log[i].handled = 1
  /\ Len(AllTasks) = submitted

C2_Witness ==
  /\ pc = "chunks"
  /\ Len(log) = ChunkSize
  /\ \A i \in DOMAIN log : log[i].handled = 1

\* C3: a failing task does not abort the run or its siblings: no exception
\* reaches the pool, and at the end failed = k and success = N - k for the
\* N tasks run of which k failed
C3_FailureIsolated ==
  /\ \A i \in DOMAIN AllTasks : AllTasks[i].st # "raised"
  /\ pc = "raised" => submitted = 0
  /\ pc = "returned" =>
       /\ Len(log) = submitted
       /\ \A i \in DOMAIN log : log[i].st = "finished"
       /\ stats.failed = Cardinality(FailedIn(log))
       /\ stats.success = Len(log) - Cardinality(FailedIn(log))

C3_Witness ==
  /\ pc = "returned"
  /\ Len(log) >= 3
  /\ Cardinality(FailedIn(log)) = 1
  /\ stats.failed = 1

\* C4: convert_image never raises; a failure at any step comes back as a
\* result with success false, no output path and the error text; a
\* successful result has an output path and an empty error message
C4_FailuresAreResults ==
  \A i \in DOMAIN AllTasks :
    LET t == AllTasks[i] IN
    /\ t.st # "raised"
    /\ t.st = "finished" =>
         /\ t.res.input_path = t.input
         /\ t.res.success =>
              t.res.output_path # NoPath /\ t.res.error_message = ""
         /\ ~t.res.success =>
              t.res.output_path = NoPath /\ t.res.error_message # ""
         /\ t.fault # "none" => ~t.res.success
         /\ (cfg.maintain_structure /\ ~IsPrefix(input_dir, t.input)) => ~t.res.success

C4_Witness ==
  /\ cfg.maintain_structure
  /\ input_dir = SubA
  /\ \E i \in DOMAIN log :
       /\ log[i].input = Root \o <<N("c", "png")>>
       /\ log[i].fault = "none"
       /\ log[i].res = ConversionResult(log[i].input, NoPath, FALSE, "ValueError")

\* C5: the summary is logged once, after every submitted task has finished
\* and been handled; nothing is handled or counted after it
C5_SummaryLast ==
  /\ [](/\ summaries <= 1
        /\ pc = "returned" => summaries = 1
        /\ summaries = 1 =>
             /\ tasks = <<>> /\ upd = <<>>
             /\ Len(log) = submitted
             /\ \A i \in DOMAIN log : log[i].st = "finished" /\ log[i].handled = 1)
  /\ [][summaries >= 1 =>
          /\ stats' = stats /\ log' = log /\ tasks' = tasks
          /\ summaries' = summaries]_vars

C5_Witness ==
  /\ summaries = 1
  /\ Len(log) > ChunkSize

\* C6: the executions of stats.update never overlap and all run in the
\* calling thread, so the counters count every handled result once
C6_UpdatesSerialized ==
  /\ Len(upd) <= 1
  /\ \A k \in DOMAIN upd : upd[k].thread = MainThread
  /\ stats.success = Cardinality({i \in SucceededIn(AllTasks) : AllTasks[i].handled > 0})
  /\ stats.failed = Cardinality({i \in FailedIn(AllTasks) : AllTasks[i].handled > 0})

C6_Witness ==
  /\ Len(upd) = 1
  /\ \E i \in AsCompleted(tasks) : i # upd[1].task
  /\ Running(tasks) # {}

\* C7: distinct input paths of a run resolve to distinct output paths
C7_DistinctOutputs ==
  \A i, j \in DOMAIN AllTasks :
    (/\ AllTasks[i].input # AllTasks[j].input
     /\ AllTasks[i].out # NoPath
     /\ AllTasks[j].out # NoPath) => AllTasks[i].out # AllTasks[j].out

\* C8: the path a task writes is never the input path of a task of the run
C8_InputNeverWritten ==
  \A i, j \in DOMAIN AllTasks :
    (AllTasks[i].st = "finished" /\ AllTasks[i].res.success)
      => AllTasks[i].res.output_path # AllTasks[j].input

\* C9: a task whose write failed leaves no partial file at its output path,
\* and a file at a task's output path after the run means the task succeeded
C9_NoPartialOutput ==
  pc = "returned" =>
    \A i \in DOMAIN log :
      log[i].out # NoPath =>
        /\ ~log[i].res.success => ~(IsFile(log[i].out) /\ files[log[i].out] = "partial")
        /\ IsFile(log[i].out) => log[i].res.success

\* C10: the output path is output_root/<stem>.<ext> without mirroring and
\* for a single-file input root, and output_root/<directory of the file
\* relative to the input root>/<stem>.<ext> with mirroring under a directory
ExpectedOutput(t) ==
  LET name == N(Stem(t.input), FormatStr(cfg.format)) IN
  IF cfg.maintain_structure /\ IsDir(input_path)
  THEN output_dir \o SubSeq(t.input, Len(input_path) + 1, Len(t.input) - 1) \o <<name>>
  ELSE output_dir \o <<name>>

C10_OutputPath ==
  \A i \in DOMAIN AllTasks :
    AllTasks[i].out # NoPath => AllTasks[i].out = ExpectedOutput(AllTasks[i])

C10_Witness ==
  /\ cfg.maintain_structure
  /\ cfg.format = "WEBP"
  /\ input_path = Root
  /\ output_dir = Out
  /\ \E i \in DOMAIN log :
       /\ log[i].input = SubA \o <<N("c", "PNG")>>
       /\ log[i].res.success
       /\ log[i].res.output_path = <<N("out", ""), N("a", ""), N("c", "webp")>>


\* C11: concurrent calls of mkdir(parents=True, exist_ok=True) on the same
\* destination, missing ancestors included, all succeed: none ends with an
\* error and the destination and its ancestors exist when a call returns
C11_MkdirIdempotent ==
  \A th \in DOMAIN mk :
    /\ mk[th].result \in {"running", "ok"}
    /\ mk[th].result = "ok" => Prefixes(mk[th].target) \subseteq dirs

C11_Witness ==
  /\ Out \notin InitDirs
  /\ \E i, j \in DOMAIN mk :
       /\ i # j
       /\ mk[i].target = Out \o <<N("a", "")>>
       /\ mk[j].target = mk[i].target
       /\ mk[i].result = "ok" /\ mk[j].result = "ok"
       /\ mk[i].hits > 0 /\ mk[j].hits > 0

\* C12: when the input root is neither a file nor a directory the run fails:
\* no task is submitted and no summary is logged
C12_MissingRootIsFatal ==
  (pc # "constructed" /\ ~IsDir(input_path) /\ ~IsFile(input_path)) =>
    /\ submitted = 0
    /\ summaries = 0
    /\ pc \notin {"summary", "returned"}

\* C13: a source with an alpha channel that goes to a format requiring an
\* opaque mode (JPEG, WEBP) is flattened before encoding, whatever its alpha
\* mode, and does not fail because of the alpha channel; every other image
\* is passed to the encoder unchanged
AlphaModes == {"RGBA", "LA"}
OpaqueFormats == {"JPEG", "WEBP"}

C13_AlphaFlattened ==
  \A i \in DOMAIN AllTasks :
    LET t == AllTasks[i] IN
    t.source # "" =>
      IF t.source \in AlphaModes /\ cfg.format \in OpaqueFormats
      THEN /\ t.mode \notin AlphaModes
           /\ (t.st = "finished" /\ t.fault = "none" /\ t.out # NoPath) => t.res.success
      ELSE t.mode = t.source

\* The candidates of a run over the tree as it is when the run starts: the
\* input path itself when it is a file, else the regular files with a
\* recognised lower-cased extension among the children (the descendants when
\* recursive) of the input root
Candidates(inp, recursive) ==
  IF inp \in DOMAIN InitFiles THEN {inp}
  ELSE {f \in DOMAIN InitFiles :
          /\ Lower(Suffix(f)) \in IMAGE_EXTENSIONS
          /\ IF recursive THEN IsPrefix(inp, f) /\ f # inp ELSE Parent(f) = inp}

\* C14: the files a run has processed when it returns are exactly the
\* candidates of its input root, each one once
C14_CandidatesExact ==
  pc = "returned" =>
    /\ {log[i].input : i \in DOMAIN log} = Candidates(input_path, cfg.recursive)
    /\ \A i, j \in DOMAIN log : log[i].input = log[j].input => i = j

\* C15: every wave is a non-empty chunk of at most the wave size, and when
\* the run returns the counters are those of one single wave over the
\* candidates: total and succeeded + failed both equal their number
C15_WavesKeepAggregate ==
  /\ pc = "pool" => (1 <= Len(chunk) /\ Len(chunk) <= ChunkSize /\ Len(tasks) = Len(chunk))
  /\ pc = "returned" =>
       LET single == Cardinality(Candidates(input_path, cfg.recursive)) IN
       /\ stats.total = single
       /\ stats.success + stats.failed = single

\* C16: every call of run() starts with succeeded = 0 and failed = 0, and
\* when it returns the counters count the tasks of that run only
C16_FreshStatsPerRun ==
  /\ (pc = "chunks" /\ submitted = 0) => (stats.success = 0 /\ stats.failed = 0)
  /\ pc = "returned" =>
       /\ stats.success = Cardinality(SucceededIn(log))
       /\ stats.failed = Cardinality(FailedIn(log))

\* C17: a step that handles a result adds exactly 1 to succeeded when the
\* result is a success and exactly 1 to failed when it is not, and leaves the
\* other counter, total and start_time alone; total changes only in run(),
\* before anything is submitted
C17_UpdateFrame ==
  [][ /\ stats'.total # stats.total => (pc = "constructed" /\ submitted = 0 /\ tasks = <<>>)
      /\ stats'.start_time = stats.start_time
      /\ (stats'.success # stats.success \/ stats'.failed # stats.failed) =>
            (pc = "pool" /\ pc' = "pool" /\ stats'.total = stats.total)
      /\ (pc = "pool" /\ pc' = "pool") =>
            \A i \in DOMAIN tasks :
              IF tasks'[i].handled # tasks[i].handled
              THEN /\ tasks'[i].handled = tasks[i].handled + 1
                   /\ stats'.success = stats.success + (IF tasks[i].res.success THEN 1 ELSE 0)
                   /\ stats'.failed = stats.failed + (IF tasks[i].res.success THEN 0 ELSE 1)
              ELSE (\A j \in DOMAIN tasks : tasks'[j].handled = tasks[j].handled) =>
                     (stats'.success = stats.success /\ stats'.failed = stats.failed)
    ]_vars

C17_Witness ==
  /\ pc = "pool"
  /\ stats.total >= 2
  /\ stats.success >= 1
  /\ stats.failed >= 1
  /\ \E i \in DOMAIN tasks : tasks[i].handled = 1

\* The formats whose encoder takes a quality: "JPEG和WebP质量" in the help of
\* --quality
SupportsQuality(format) == format \in {"JPEG", "WEBP"}

\* C18: the parameters a successful task has handed to img.save hold a quality exactly when
\* the target format supports one and method = 6 exactly when the format is
\* WEBP; the quality is the one the converter was constructed with
C18_SaveKwargs ==
  \A i \in DOMAIN AllTasks :
    LET t == AllTasks[i]
        K == DOMAIN t.kwargs
    IN  (t.st = "finished" /\ t.res.success) =>
          /\ ("quality" \in K) <=> SupportsQuality(cfg.format)
          /\ ("method" \in K) <=> (cfg.format = "WEBP")
          /\ "quality" \in K => t.kwargs["quality"] = saver.quality
          /\ "method" \in K => t.kwargs["method"] = WebPMethod

\* The tasks of the current run whose result has been aggregated
Aggregated == {i \in DOMAIN AllTasks : AllTasks[i].handled >= 1}

\* C19: at most one wave is in flight: the submitted tasks that are not yet
\* aggregated never exceed the wave size, and a step that pulls from the
\* discovery iterator or submits tasks is taken only when every task
\* submitted before it has finished and has been aggregated
C19_WavesSequential ==
  /\ [](/\ Len(tasks) <= ChunkSize
        /\ submitted - Cardinality(Aggregated) <= ChunkSize)
  /\ [][ (iter' # iter \/ submitted' > submitted) =>
            /\ tasks = <<>>
            /\ upd = <<>>
            /\ Len(log) = submitted
            /\ \A i \in DOMAIN log : log[i].st = "finished" /\ log[i].handled = 1
        ]_vars

C19_Witness ==
  /\ pc = "pool"
  /\ Len(log) = ChunkSize
  /\ submitted > ChunkSize
  /\ \E i \in DOMAIN tasks : tasks[i].st = "opened"

====
